---- MODULE Spec2Model ----
(***************************************************************************)
(* A model of git-sms: the SMS webhook dispatcher (src/src/main.py), the   *)
(* natural-language router (src/src/natural_language_router.py), the       *)
(* summarization pipeline (src/src/summarizers.py) and the write stubs     *)
(* (src/src/commands.py).                                                  *)
(*                                                                         *)
(* Strings are sequences of symbols.  A symbol is an atomic piece of text  *)
(* (a word, a space, a slash, a digit); the Python string functions the    *)
(* code uses (lower, startswith, split, in, strip, isdigit, int) are       *)
(* operators on such sequences.  One request is one behaviour: Init draws  *)
(* the message text, every action is one step of the handler, and every    *)
(* collaborator outcome (GitHub fetch, search, LLM call) is drawn inside   *)
(* the step that makes the call.                                           *)
(***************************************************************************)
EXTENDS Integers, Sequences, FiniteSets, TLC

VARIABLES
    text,      \* Body.strip(), the message text
    pc,        \* position of the request inside the handler
    origin,    \* "det": deterministic branch, "nl": natural-language fallback
    entry,     \* pipeline entry that is running: [fn, repo, num]
    prompt,    \* token counts of the repository prompt: as first assembled,
               \* as handed to the LLM (total), and of its README part
    raw,       \* content of the intent-extraction LLM response
    intent,    \* the intent parse_command_naturally works on / returns
    items,     \* outcome of the repository search
    guess,     \* value returned by github_search_repo
    calls,     \* log of collaborator calls, in call order
    result,    \* value returned by the pipeline entry
    reply,     \* response_message handed to twilio_reply
    raised     \* exception that escaped sms_webhook ("" when none)

vars == <<text, pc, origin, entry, prompt, raw, intent, items, guess, calls,
          result, reply, raised>>

----------------------------------------------------------------------------
(* Bounds of the model *)

MaxTokens == 5      \* longest message text, in whitespace-separated tokens
MaxItems == 2       \* longest candidate list of the search check

(* Program constants *)

MAX_TOKENS == 16000
ASK_OPENAI_MAX_LENGTH == 1000

----------------------------------------------------------------------------
(* Python string functions on symbol sequences *)

SP == " "

Min(a, b) == IF a < b THEN a ELSE b

LowerSym(c) ==
    CASE c = "ISSUE" -> "issue"
      [] c = "HELP" -> "help"
      [] c = "SUMMARIZE" -> "summarize"
      [] c = "A" -> "a"
      [] c = "B" -> "b"
      [] OTHER -> c

lower(s) == [i \in 1..Len(s) |-> LowerSym(s[i])]

startswith(s, p) == Len(s) >= Len(p) /\ SubSeq(s, 1, Len(p)) = p

\* s.find(sub) + 1: the first position where sub occurs in s, 0 when none
Find(s, sub) ==
    LET hits == {i \in 1..(Len(s) - Len(sub) + 1) : SubSeq(s, i, i + Len(sub) - 1) = sub}
    IN IF hits = {} THEN 0 ELSE CHOOSE i \in hits : \A j \in hits : i <= j

\* sub in s
Contains(s, sub) == Find(s, sub) # 0

RECURSIVE SplitFrom(_, _, _)
SplitFrom(s, i, cur) ==
    IF i > Len(s) THEN (IF cur = <<>> THEN <<>> ELSE <<cur>>)
    ELSE IF s[i] = SP
         THEN (IF cur = <<>> THEN SplitFrom(s, i + 1, <<>>)
                             ELSE <<cur>> \o SplitFrom(s, i + 1, <<>>))
         ELSE SplitFrom(s, i + 1, Append(cur, s[i]))

\* s.split(): the whitespace-separated tokens of s
split(s) == SplitFrom(s, 1, <<>>)

\* s.split(sep, 1)
SplitOnce(s, sep) ==
    LET i == Find(s, sep)
    IN IF i = 0 THEN <<s>>
       ELSE <<SubSeq(s, 1, i - 1), SubSeq(s, i + Len(sep), Len(s))>>

RECURSIVE SplitOn(_, _)
\* s.split(sep) for a one-symbol separator: the pieces between occurrences
SplitOn(s, sep) ==
    LET i == Find(s, <<sep>>)
    IN IF i = 0 THEN <<s>>
       ELSE <<SubSeq(s, 1, i - 1)>> \o SplitOn(SubSeq(s, i + 1, Len(s)), sep)

RECURSIVE join(_)
\* " ".join(toks)
join(toks) ==
    IF toks = <<>> THEN <<>>
    ELSE IF Len(toks) = 1 THEN toks[1]
    ELSE toks[1] \o <<SP>> \o join(Tail(toks))

\* Characters for which str.isdigit() is true: ASCII "5" and SUPERSCRIPT TWO
DigitSyms == {"5", "sup2"}
\* Characters int() accepts
DecimalSyms == {"5"}

isdigit(tok) == tok # <<>> /\ \A i \in 1..Len(tok) : tok[i] \in DigitSyms

IntRaises(tok) == tok = <<>> \/ \E i \in 1..Len(tok) : tok[i] \notin DecimalSyms

RECURSIVE int(_)
int(tok) == IF tok = <<>> THEN 0 ELSE 10 * int(SubSeq(tok, 1, Len(tok) - 1)) + 5

----------------------------------------------------------------------------
(* Values *)

\* Python None where a string is expected
None == <<"<None>">>

\* bool(v) of an optional string
Truthy(v) == v # None /\ v # <<>>

\* Message values: a string produced by the code (a literal, with the
\* interpolated value in arg), a string produced by the LLM (of length len),
\* or None.
Str(s) == [src |-> "code", text |-> s, arg |-> <<>>, len |-> 0]
Fmt(s, a) == [src |-> "code", text |-> s, arg |-> a, len |-> 0]
LLMText(n) == [src |-> "llm", text |-> "", arg |-> <<>>, len |-> n]
NoneMsg == [src |-> "none", text |-> "", arg |-> <<>>, len |-> 0]
Unset == [src |-> "unset", text |-> "", arg |-> <<>>, len |-> 0]

\* bool(m) of a message value
TruthyMsg(m) == (m.src = "code" /\ m.text # "") \/ (m.src = "llm" /\ m.len > 0)

\* len(m) of a string message without interpolation
StrLen(m) == IF m.src = "llm" THEN m.len ELSE Len(m.text)

Call(fn, repo, num, out) == [fn |-> fn, repo |-> repo, num |-> num, out |-> out]

NoEntry == [fn |-> "", repo |-> <<>>, num |-> 0]
NoPrompt == [assembled |-> 0, total |-> 0, readme |-> 0]
NoIntent == [action |-> "", repo |-> None, repo_name |-> None, title |-> None,
             body |-> None, issue_number |-> None]
NoItems == [status |-> "", list |-> <<>>]

----------------------------------------------------------------------------
(* Message texts *)

T(w) == <<w>>
Slash1 == <<"o", "/", "r">>
Slash2 == <<"o", "/", "r", "/", "x">>

\* The tokens drawn at each position: the words the handler tests there
\* (in both cases), repository names with 0, 1 and 2 slashes, decimal and
\* non-decimal digits, the body separator, and a word it does not know.
\* The tokens of a text are joined by single spaces, and the text is already
\* stripped.
Vocab(i) ==
    CASE i = 1 -> {T("create"), T("SUMMARIZE"), T("help"), T("what")}
      [] i = 2 -> {T("repo"), T("issue"), Slash1, Slash2, T("name")}
      [] i = 3 -> {T("issue"), T("ISSUE"), Slash1, T("name"), T("--")}
      [] i = 4 -> {T("5"), T("sup2"), T("word"), T("--")}
      [] OTHER -> {T("word"), T("--")}

RECURSIVE TokenSeqsOf(_)
TokenSeqsOf(n) ==
    IF n = 0 THEN {<<>>}
    ELSE {Append(ts, t) : ts \in TokenSeqsOf(n - 1), t \in Vocab(n)}

TokenSeqs == UNION {TokenSeqsOf(n) : n \in 0..MaxTokens}

Texts == {join(ts) : ts \in TokenSeqs}

----------------------------------------------------------------------------
(* commands.py: the write stubs *)

create_repo(name) == FALSE

create_issue(repo, title, body) == FALSE

----------------------------------------------------------------------------
(* main.py: sms_webhook *)

UsageMsg == Str("Usage: create issue <repo> <title> -- <body>")
HelpMsg == Str("Available commands:\n- summarize owner/repo\n- summarize owner/repo issue [#]")
UnrecognizedMsg == Str("Unrecognized command. Text 'help' for available options.")

is_create_repo(t) ==
    startswith(lower(t), <<"create", SP, "repo">>) /\ Len(split(t)) >= 3

is_create_issue(t) ==
    startswith(lower(t), <<"create", SP, "issue">>) /\ Len(split(t)) >= 4

is_help(t) == lower(t) = <<"help">>

\* is_summarize without the lower(): the prefix test is case-sensitive
is_summarize_cased(t) ==
    /\ startswith(t, <<"summarize">>)
    /\ Len(split(t)) >= 2
    /\ Contains(split(t)[2], <<"/">>)

is_summarize(t) ==
    /\ startswith(lower(t), <<"summarize">>)
    /\ Len(split(t)) >= 2
    /\ Contains(split(t)[2], <<"/">>)

\* The if / elif chain of sms_webhook: the branch that handles the text
Branch(t) ==
    IF is_create_repo(t) THEN "create_repo"
    ELSE IF is_create_issue(t) THEN "create_issue"
    ELSE IF is_help(t) THEN "help"
    ELSE IF is_summarize(t) THEN "summarize"
    ELSE "fallback"

\* parse_create_issue with a missing separator read as an empty body
parse_create_issue_lenient(t) ==
    LET sp == SplitOnce(t, <<SP, "--", SP>>)
        pre == split(sp[1])
    IN IF Len(pre) < 3 THEN [ok |-> FALSE, repo |-> <<>>, title |-> <<>>, body |-> <<>>]
       ELSE [ok |-> TRUE, repo |-> pre[3], title |-> join(SubSeq(pre, 4, Len(pre))),
             body |-> IF Len(sp) = 2 THEN sp[2] ELSE <<>>]

\* The try block of the create issue branch: the two unpackings raise
\* ValueError when the separator is missing or fewer than three tokens
\* precede it.
parse_create_issue(t) ==
    LET sp == SplitOnce(t, <<SP, "--", SP>>)
    IN IF Len(sp) # 2 THEN [ok |-> FALSE, repo |-> <<>>, title |-> <<>>, body |-> <<>>]
       ELSE LET pre == split(sp[1])
            IN IF Len(pre) < 3
               THEN [ok |-> FALSE, repo |-> <<>>, title |-> <<>>, body |-> <<>>]
               ELSE [ok |-> TRUE, repo |-> pre[3],
                     title |-> join(SubSeq(pre, 4, Len(pre))), body |-> sp[2]]

\* The inner if / elif / else of the summarize branch: the pipeline entry
summarize_target(parts) ==
    IF Len(parts) >= 4 /\ lower(parts[3]) = <<"issue">> /\ isdigit(parts[4])
    THEN "summarize_specific_issue"
    ELSE IF Len(parts) >= 3 /\ lower(parts[3]) = <<"issue">>
    THEN "summarize_latest_issue"
    ELSE "summarize_any_repo"

\* What the caller of a pipeline entry makes of the value it returns
ReplyFor(o, fn, res) ==
    IF o = "det"
    THEN IF TruthyMsg(res) THEN res
         ELSE IF fn = "summarize_specific_issue" THEN Str("Could not summarize issue.")
         ELSE IF fn = "summarize_latest_issue" THEN Str("Could not summarize the latest issue.")
         ELSE Str("Could not summarize that repo.")
    ELSE IF TruthyMsg(res) THEN res ELSE UnrecognizedMsg

\* The request ends with a reply
Finish(res) ==
    /\ result' = res
    /\ reply' = ReplyFor(origin, entry.fn, res)
    /\ pc' = "done"
    /\ raised' = raised

\* The request ends with an exception leaving sms_webhook
Escape(exc) ==
    /\ raised' = exc
    /\ pc' = "done"
    /\ UNCHANGED <<result, reply>>

SmsWebhook ==
    /\ pc = "sms_webhook"
    /\ LET parts == split(text)
           b == Branch(text)
       IN
       CASE b = "create_repo" ->
              /\ calls' = Append(calls, Call("create_repo", parts[3], 0, "False"))
              /\ reply' = IF create_repo(parts[3])
                          THEN Fmt("Created repo '{}'", parts[3])
                          ELSE Fmt("Failed to create repo '{}'.", parts[3])
              /\ pc' = "done"
              /\ UNCHANGED <<origin, entry, raised>>
         [] b = "create_issue" ->
              LET p == parse_create_issue(text)
              IN /\ calls' = IF p.ok
                             THEN Append(calls, Call("create_issue", p.repo, 0, "False"))
                             ELSE calls
                 /\ reply' = IF ~p.ok THEN UsageMsg
                             ELSE IF create_issue(p.repo, p.title, p.body)
                             THEN Fmt("Issue created in '{}'", p.repo)
                             ELSE Fmt("Failed to create issue in '{}'.", p.repo)
                 /\ pc' = "done"
                 /\ UNCHANGED <<origin, entry, raised>>
         [] b = "help" ->
              /\ reply' = HelpMsg
              /\ pc' = "done"
              /\ UNCHANGED <<origin, entry, calls, raised>>
         [] b = "summarize" ->
              LET fn == summarize_target(parts)
              IN IF fn = "summarize_specific_issue" /\ IntRaises(parts[4])
                 THEN \* int(parts[3]) raises ValueError
                      /\ raised' = "ValueError"
                      /\ pc' = "done"
                      /\ UNCHANGED <<origin, entry, calls, reply>>
                 ELSE /\ origin' = "det"
                      /\ entry' = [fn |-> fn, repo |-> parts[2],
                                   num |-> IF fn = "summarize_specific_issue"
                                           THEN int(parts[4]) ELSE 0]
                      /\ calls' = Append(calls, Call(fn, parts[2], entry'.num, "called"))
                      /\ pc' = fn
                      /\ UNCHANGED <<reply, raised>>
         [] OTHER ->
              /\ origin' = "nl"
              /\ pc' = "parse_command_naturally"
              /\ UNCHANGED <<entry, calls, reply, raised>>
    /\ UNCHANGED <<text, prompt, raw, intent, items, guess, result>>

----------------------------------------------------------------------------
(* summarizers.py: the token budget gate *)

\* Token counts drawn for the fixed part of the repository prompt (preamble
\* and metadata fields) and for the decoded README
MetaTokens == {10}
ReadmeTokens == {0, MAX_TOKENS - 10, MAX_TOKENS - 9, MAX_TOKENS}

\* Parameters of truncate_text(text, token_limit, encoder), and the number of
\* arguments summarize_any_repo passes to it
TruncateTextParams == 3
TruncateCallArgs == 2

\* encoder.decode(encoder.encode(text)[:token_limit]), on token counts
truncate_text(tokens, token_limit, encoder) ==
    IF token_limit >= 0 THEN Min(tokens, token_limit)
    ELSE IF tokens + token_limit > 0 THEN tokens + token_limit ELSE 0

\* budget_gate without the comparison against MAX_TOKENS
budget_gate_unchecked(meta, readme) ==
    [raises |-> FALSE, total |-> meta + readme, readme |-> readme]

\* The if total_tokens > MAX_TOKENS block of summarize_any_repo, for a prompt
\* of meta + readme tokens: the prompt handed on, or the TypeError of the call
budget_gate(meta, readme) ==
    LET total == meta + readme
        allowable == MAX_TOKENS - total + readme
    IN IF total > MAX_TOKENS
       THEN IF TruncateCallArgs # TruncateTextParams
            THEN [raises |-> TRUE, total |-> total, readme |-> readme]
            ELSE [raises |-> FALSE,
                  total |-> meta + truncate_text(readme, allowable, "cl100k_base"),
                  readme |-> truncate_text(readme, allowable, "cl100k_base")]
       ELSE [raises |-> FALSE, total |-> total, readme |-> readme]

----------------------------------------------------------------------------
(* summarizers.py: the pipeline entries *)

\* Outcomes of one GitHub request: a success status with a well-formed body,
\* a non-success status, a transport exception, a success status with a body
\* the code cannot use
FetchOutcomes == {"ok", "status", "throws", "malformed"}

\* Outcomes of one chat completion: an exception, a response without
\* choices, a content of the given length (after strip)
LLMLens == {0, 1, ASK_OPENAI_MAX_LENGTH, ASK_OPENAI_MAX_LENGTH + 1}
LLMOutcomes == {[kind |-> "throws", len |-> 0], [kind |-> "nochoices", len |-> 0]}
               \cup {[kind |-> "content", len |-> n] : n \in LLMLens}

\* summarizers.ask_openai: the content, None on any exception
ask_openai(o) == IF o.kind = "content" THEN LLMText(o.len) ELSE NoneMsg

\* summary or "AI summarization failed."
or_failed(summary) ==
    IF TruthyMsg(summary) THEN summary ELSE Str("AI summarization failed.")

SummarizeAnyRepo ==
    /\ pc = "summarize_any_repo"
    /\ \E repoRes \in FetchOutcomes, readmeRes \in FetchOutcomes,
          meta \in MetaTokens, rd \in ReadmeTokens :
          LET readme == IF readmeRes = "ok" THEN rd ELSE 0
              gate == budget_gate(meta, readme)
              gets == IF repoRes = "throws"
                      THEN <<Call("GET repo", entry.repo, 0, repoRes)>>
                      ELSE <<Call("GET repo", entry.repo, 0, repoRes),
                             Call("GET readme", entry.repo, 0, readmeRes)>>
          IN /\ calls' = calls \o gets
             /\ IF repoRes = "throws" \/ readmeRes = "throws"
                THEN Finish(Str("Something went wrong.")) /\ UNCHANGED prompt
                ELSE IF repoRes = "status"
                THEN Finish(Str("Could not find repo.")) /\ UNCHANGED prompt
                ELSE IF repoRes = "malformed" \/ readmeRes = "malformed"
                THEN Finish(Str("Something went wrong.")) /\ UNCHANGED prompt
                ELSE IF gate.raises
                THEN /\ Finish(Str("Something went wrong."))
                     /\ prompt' = [assembled |-> meta + readme, total |-> meta + readme,
                                   readme |-> readme]
                ELSE /\ prompt' = [assembled |-> meta + readme, total |-> gate.total,
                                   readme |-> gate.readme]
                     /\ pc' = "ask_openai"
                     /\ UNCHANGED <<result, reply, raised>>
    /\ UNCHANGED <<text, origin, entry, raw, intent, items, guess>>

\* summarize_latest_issue without the test of the issue list: whatever body
\* came back is put into the prompt
SummarizeLatestIssue_unchecked ==
    /\ pc = "summarize_latest_issue"
    /\ \E res \in FetchOutcomes \cup {"empty"} :
          /\ calls' = Append(calls, Call("GET issues", entry.repo, 0, res))
          /\ IF res = "throws" \/ res = "malformed"
             THEN Finish(Str("Failed to summarize issue."))
             ELSE /\ pc' = "ask_openai"
                  /\ UNCHANGED <<result, reply, raised>>
    /\ UNCHANGED <<text, origin, entry, prompt, raw, intent, items, guess>>

SummarizeLatestIssue ==
    /\ pc = "summarize_latest_issue"
    /\ \E res \in FetchOutcomes \cup {"empty"} :
          /\ calls' = Append(calls, Call("GET issues", entry.repo, 0, res))
          /\ IF res = "throws" \/ res = "malformed"
             THEN Finish(Str("Failed to summarize issue."))
             ELSE IF res = "status" \/ res = "empty"
             THEN Finish(Str("No issues found."))
             ELSE /\ pc' = "ask_openai"
                  /\ UNCHANGED <<result, reply, raised>>
    /\ UNCHANGED <<text, origin, entry, prompt, raw, intent, items, guess>>

\* summarize_specific_issue, and the summarize_issue_thread it calls
SummarizeSpecificIssue ==
    /\ pc = "summarize_specific_issue"
    /\ IF Len(SplitOn(entry.repo, "/")) # 2
       THEN \* owner, repo = owner_repo.split("/") raises ValueError
            /\ Finish(Str("Invalid format. Use <owner>/<repo>"))
            /\ UNCHANGED calls
       ELSE \E issueRes \in FetchOutcomes, commentsRes \in FetchOutcomes :
            LET gets == IF issueRes = "throws"
                        THEN <<Call("GET issue", entry.repo, entry.num, issueRes)>>
                        ELSE <<Call("GET issue", entry.repo, entry.num, issueRes),
                               Call("GET comments", entry.repo, entry.num, commentsRes)>>
            IN /\ calls' = calls \o gets
               /\ IF issueRes = "throws" \/ commentsRes = "throws"
                  THEN Escape("TransportError")
                  ELSE IF issueRes = "status" \/ commentsRes = "status"
                  THEN Finish(NoneMsg)
                  ELSE IF issueRes = "malformed" \/ commentsRes = "malformed"
                  THEN Escape("DecodeError")
                  ELSE /\ pc' = "ask_openai"
                       /\ UNCHANGED <<result, reply, raised>>
    /\ UNCHANGED <<text, origin, entry, prompt, raw, intent, items, guess>>

\* The chat completion of the pipeline entry that is running, and the return
\* of that entry
AskOpenAI ==
    /\ pc = "ask_openai"
    /\ \E o \in LLMOutcomes :
          /\ calls' = Append(calls, Call("LLM summary", entry.repo, prompt.total, o.kind))
          /\ IF entry.fn = "summarize_specific_issue"
             THEN Finish(ask_openai(o))
             ELSE Finish(or_failed(ask_openai(o)))
    /\ UNCHANGED <<text, origin, entry, prompt, raw, intent, items, guess>>

----------------------------------------------------------------------------
(* natural_language_router.py: github_search_repo *)

\* description or ""
or_empty(v) == IF v = None THEN <<>> ELSE v

FirstOf(S) == CHOOSE i \in S : \A j \in S : i <= j

\* github_search_repo with the two loops merged into one pass: the first
\* candidate that is a strong or a soft match
github_search_repo_one_pass(query, res) ==
    IF res.status # "ok" THEN None
    ELSE LET L == res.list
             query_lower == lower(query)
             hit == {i \in 1..Len(L) :
                        \/ lower(L[i].name) = query_lower
                        \/ Contains(lower(L[i].full_name), query_lower)
                        \/ Contains(lower(or_empty(L[i].description)), query_lower)
                        \/ Contains(lower(L[i].name), query_lower)}
         IN IF hit # {} THEN L[FirstOf(hit)].full_name
            ELSE IF L # <<>> THEN L[1].full_name
            ELSE None

\* github_search_repo that falls back on the query itself when the search
\* gives no candidate
github_search_repo_echo(query, res) ==
    IF res.status # "ok" \/ res.list = <<>> THEN query
    ELSE github_search_repo_one_pass(query, res)

\* The value github_search_repo(query) returns when the search request ends
\* as res: [status, list].  Every exception inside the try block (transport,
\* body without the expected keys) ends in the final return None.
github_search_repo(query, res) ==
    IF res.status # "ok" THEN None
    ELSE LET L == res.list
             query_lower == lower(query)
             strong == {i \in 1..Len(L) :
                          \/ lower(L[i].name) = query_lower
                          \/ Contains(lower(L[i].full_name), query_lower)}
             soft == {i \in 1..Len(L) :
                          \/ Contains(lower(or_empty(L[i].description)), query_lower)
                          \/ Contains(lower(L[i].name), query_lower)}
         IN IF strong # {} THEN L[FirstOf(strong)].full_name
            ELSE IF soft # {} THEN L[FirstOf(soft)].full_name
            ELSE IF L # <<>> THEN L[1].full_name
            ELSE None

SearchFailures ==
    {[status |-> st, list |-> <<>>] : st \in {"throws", "status", "malformed"}}

\* Search outcomes drawn while a whole request is followed
RequestSearchResults ==
    SearchFailures
    \cup {[status |-> "ok", list |-> <<>>],
          [status |-> "ok",
           list |-> <<[name |-> T("r"), full_name |-> Slash1, description |-> None]>>]}

----------------------------------------------------------------------------
(* natural_language_router.py: parse_command_naturally *)

\* The content of the intent-extraction response is a sequence of lexical
\* pieces: a run of three backticks, the tag json, another tag, a newline,
\* prose, a JSON array, or a JSON object (with the intent it denotes).
Piece(t) == [t |-> t, v |-> NoIntent]
Obj(i) == [t |-> "object", v |-> i]

Intent(a, r, n, ti, b, num) ==
    [action |-> a, repo |-> r, repo_name |-> n, title |-> ti, body |-> b,
     issue_number |-> num]

UnknownIntent == Intent("unknown", None, None, None, None, None)

RepoVals == {None, <<>>, Slash1, Slash2}

\* The JSON objects drawn as the LLM's answer
LLMIntents ==
    {Intent("summarize_repo", r, None, None, None, None) : r \in RepoVals}
    \cup {Intent("summarize_latest_issue", r, None, None, None, None) : r \in RepoVals}
    \cup {Intent("summarize_issue", r, None, None, None, n) :
             r \in {None, Slash1}, n \in {None, T("5")}}
    \cup {Intent("create_repo", None, n, None, None, None) : n \in {None, <<>>, T("name")}}
    \cup {Intent("create_issue", r, None, None, None, None) : r \in RepoVals}
    \cup {Intent("create_issue", Slash1, None, T("title"), T("body"), None),
          Intent("help", None, None, None, None, None),
          UnknownIntent,
          Intent("dance", Slash1, None, None, None, None)}

FencedPayloads ==
    {Obj(Intent("create_repo", None, T("name"), None, None, None)),
     Piece("array"), Piece("prose")}

RawContents ==
    {<<Obj(i)>> : i \in LLMIntents}
    \cup {<<Piece("array")>>, <<Piece("prose")>>}
    \cup {<<Piece("fence"), Piece("nl"), p, Piece("nl"), Piece("fence")>> : p \in FencedPayloads}
    \cup {<<Piece("fence"), Piece("json"), Piece("nl"), p, Piece("nl"), Piece("fence")>> :
             p \in FencedPayloads}
    \cup {<<Piece("fence"), Piece("tag"), Piece("nl"), p, Piece("nl"), Piece("fence")>> :
             p \in FencedPayloads}
    \cup {<<Piece("prose"), Piece("nl"), Piece("fence"), Piece("nl"), p, Piece("nl"),
            Piece("fence")>> : p \in FencedPayloads}

IntentLLMOutcomes ==
    {[kind |-> "throws", content |-> <<>>], [kind |-> "nochoices", content |-> <<>>]}
    \cup {[kind |-> "content", content |-> c] : c \in RawContents}

RECURSIVE lstrip(_, _)
lstrip(s, C) == IF s # <<>> /\ s[1].t \in C THEN lstrip(Tail(s), C) ELSE s

RECURSIVE rstrip(_, _)
rstrip(s, C) ==
    IF s # <<>> /\ s[Len(s)].t \in C THEN rstrip(SubSeq(s, 1, Len(s) - 1), C) ELSE s

\* s.strip(chars); s.strip() when C is the whitespace
strip(s, C) == rstrip(lstrip(s, C), C)

WS == {"nl"}

\* The fence removal of parse_command_naturally
unfence(content) ==
    IF content # <<>> /\ content[1].t = "fence"
    THEN LET a == strip(strip(content, {"fence"}), WS)
         IN IF a # <<>> /\ a[1].t = "json" THEN strip(Tail(a), WS) ELSE a
    ELSE content

\* json.loads: a value when the string is one JSON text, else JSONDecodeError
json_loads(s) ==
    LET b == strip(s, WS)
    IN IF Len(b) = 1 /\ b[1].t \in {"object", "array"}
       THEN [ok |-> TRUE, kind |-> b[1].t, v |-> b[1].v]
       ELSE [ok |-> FALSE, kind |-> "", v |-> NoIntent]

RepoActions == {"summarize_repo", "summarize_latest_issue", "create_issue"}

\* The guess condition without the test of the action
needs_guess_any_action(parsed) == ~Truthy(parsed.repo)

\* The condition of the "Guess repo if needed" block
needs_guess(parsed) == parsed.action \in RepoActions /\ ~Truthy(parsed.repo)

\* parse_response with an except clause for JSONDecodeError only: a JSON
\* text that is no object is handed on as it was parsed
parse_response_narrow_except(o) ==
    IF o.kind # "content" THEN [ok |-> FALSE, v |-> UnknownIntent]
    ELSE LET j == json_loads(unfence(o.content))
         IN IF j.ok THEN [ok |-> j.kind = "object", v |-> j.v]
            ELSE [ok |-> FALSE, v |-> UnknownIntent]

\* The try block up to the repo guess: the parsed dict, or the exception that
\* the except clause turns into the unknown intent (parsed.get on a list
\* raises AttributeError)
parse_response(o) ==
    IF o.kind # "content" THEN [ok |-> FALSE, v |-> UnknownIntent]
    ELSE LET j == json_loads(unfence(o.content))
         IN IF j.ok /\ j.kind = "object" THEN [ok |-> TRUE, v |-> j.v]
            ELSE [ok |-> FALSE, v |-> UnknownIntent]

ParseCommandNaturally ==
    /\ pc = "parse_command_naturally"
    /\ \E o \in IntentLLMOutcomes :
          LET p == parse_response(o)
          IN /\ raw' = o
             /\ calls' = Append(calls, Call("LLM intent", text, 0, o.kind))
             /\ intent' = p.v
             /\ pc' = IF p.ok /\ needs_guess(p.v) THEN "github_search_repo"
                      ELSE "route_natural_command"
    /\ UNCHANGED <<text, origin, entry, prompt, items, guess, result, reply, raised>>

\* The call of github_search_repo inside parse_command_naturally, and the
\* adoption of its result
GithubSearchRepo(results) ==
    /\ pc = "github_search_repo"
    /\ \E res \in results :
          /\ items' = res
          /\ guess' = github_search_repo(text, res)
          /\ calls' = Append(calls, Call("GET search", text, 0, res.status))
          /\ intent' = IF Truthy(guess') THEN [intent EXCEPT !.repo = guess'] ELSE intent
          /\ pc' = "route_natural_command"
    /\ UNCHANGED <<text, origin, entry, prompt, raw, result, reply, raised>>

----------------------------------------------------------------------------
(* natural_language_router.py: route_natural_command *)

\* route_natural_command with branches that test the action alone
route_target_unchecked(i) ==
    IF i.action = "summarize_repo" THEN "summarize_any_repo"
    ELSE IF i.action = "summarize_latest_issue" THEN "summarize_latest_issue"
    ELSE IF i.action = "create_repo" THEN "create_repo"
    ELSE IF i.action = "create_issue" THEN "create_issue"
    ELSE "none"

\* The chain of ifs of route_natural_command: what it calls for an intent
route_target(i) ==
    IF i.action = "summarize_repo" /\ Truthy(i.repo) THEN "summarize_any_repo"
    ELSE IF i.action = "summarize_latest_issue" /\ Truthy(i.repo) THEN "summarize_latest_issue"
    ELSE IF i.action = "create_repo" /\ Truthy(i.repo_name) THEN "create_repo"
    ELSE IF i.action = "create_issue" /\ Truthy(i.repo) THEN "create_issue"
    ELSE "none"

\* repo.split("/")[-1]
last_segment(repo) == LET ps == SplitOn(repo, "/") IN ps[Len(ps)]

RouteNaturalCommand ==
    /\ pc = "route_natural_command"
    /\ LET tgt == route_target(intent)
       IN CASE tgt \in {"summarize_any_repo", "summarize_latest_issue"} ->
                 /\ entry' = [fn |-> tgt, repo |-> intent.repo, num |-> 0]
                 /\ calls' = Append(calls, Call(tgt, intent.repo, 0, "called"))
                 /\ pc' = tgt
                 /\ UNCHANGED reply
            [] tgt = "create_repo" ->
                 /\ calls' = Append(calls, Call("create_repo", intent.repo_name, 0, "False"))
                 /\ reply' = ReplyFor("nl", "", IF create_repo(intent.repo_name)
                                                THEN Str("Created repo.")
                                                ELSE Str("Failed to create repo."))
                 /\ pc' = "done"
                 /\ UNCHANGED entry
            [] tgt = "create_issue" ->
                 LET title == IF Truthy(intent.title) THEN intent.title ELSE T("Issue")
                     body == IF Truthy(intent.body) THEN intent.body ELSE <<>>
                 IN /\ calls' = Append(calls, Call("create_issue",
                                                   last_segment(intent.repo), 0, "False"))
                    /\ reply' = ReplyFor("nl", "",
                                    IF create_issue(last_segment(intent.repo), title, body)
                                    THEN Str("Issue created.")
                                    ELSE Str("Failed to create issue."))
                    /\ pc' = "done"
                    /\ UNCHANGED entry
            [] OTHER ->
                 /\ reply' = ReplyFor("nl", "", NoneMsg)
                 /\ pc' = "done"
                 /\ UNCHANGED <<entry, calls>>
    /\ UNCHANGED <<text, origin, prompt, raw, intent, items, guess, result, raised>>

----------------------------------------------------------------------------
(* One request *)

NoRaw == [kind |-> "", content |-> <<>>]

Init ==
    /\ text \in Texts
    /\ pc = "sms_webhook"
    /\ origin = ""
    /\ entry = NoEntry
    /\ prompt = NoPrompt
    /\ raw = NoRaw
    /\ intent = NoIntent
    /\ items = NoItems
    /\ guess = None
    /\ calls = <<>>
    /\ result = Unset
    /\ reply = NoneMsg
    /\ raised = ""

Next ==
    \/ SmsWebhook
    \/ ParseCommandNaturally
    \/ GithubSearchRepo(RequestSearchResults)
    \/ RouteNaturalCommand
    \/ SummarizeAnyRepo
    \/ SummarizeLatestIssue
    \/ SummarizeSpecificIssue
    \/ AskOpenAI

Spec == Init /\ [][Next]_vars

----------------------------------------------------------------------------
(* The repository search alone: the request stands at the search call of
   parse_command_naturally, for a short query and a ranked candidate list *)

RepoNames == {<<"a">>, <<"b">>, <<"A", "b">>}

SearchQueries == {<<"a">>, <<"A">>, <<"a", "b">>, <<"b">>}

Candidates ==
    {[name |-> n, full_name |-> o \o <<"/">> \o n, description |-> d] :
        n \in RepoNames, o \in {<<"a">>, <<"c">>}, d \in {None, <<"a", "b">>, <<"B">>}}

RECURSIVE ListsOf(_)
ListsOf(n) ==
    IF n = 0 THEN {<<>>}
    ELSE {Append(l, c) : l \in ListsOf(n - 1), c \in Candidates}

CandidateLists == UNION {ListsOf(n) : n \in 0..MaxItems}

SearchResults ==
    SearchFailures \cup {[status |-> "ok", list |-> l] : l \in CandidateLists}

SearchInit ==
    /\ text \in SearchQueries
    /\ pc = "github_search_repo"
    /\ origin = "nl"
    /\ entry = NoEntry
    /\ prompt = NoPrompt
    /\ intent \in {Intent(a, r, None, None, None, None) :
                      a \in {"summarize_repo", "create_issue"}, r \in {None, <<>>}}
    /\ raw = [kind |-> "content", content |-> <<Obj(intent)>>]
    /\ items = NoItems
    /\ guess = None
    /\ calls = <<Call("LLM intent", text, 0, "content")>>
    /\ result = Unset
    /\ reply = NoneMsg
    /\ raised = ""

SearchNext == GithubSearchRepo(SearchResults)

SpecSearch == SearchInit /\ [][SearchNext]_vars

----------------------------------------------------------------------------
(* Properties *)

CallsTo(F) == {i \in 1..Len(calls) : calls[i].fn \in F}

PipelineEntries ==
    {"summarize_any_repo", "summarize_latest_issue", "summarize_specific_issue"}
WriteStubs == {"create_repo", "create_issue"}
GitHubCalls ==
    {"GET repo", "GET readme", "GET issues", "GET issue", "GET comments", "GET search"}

IsString(m) == m.src \in {"code", "llm"}

\* C1: every request that reached a collaborator ends in one string reply
\* and no exception leaves sms_webhook, whatever the collaborators' outcomes.
C1_NoExceptionEscapes ==
    (pc = "done" /\ calls # <<>>) => (raised = "" /\ IsString(reply))

\* C2: every text a pipeline entry returns is at most 1000 characters long.
C2_SummaryAtMostCap ==
    IsString(result) => StrLen(result) <= ASK_OPENAI_MAX_LENGTH

\* The four deterministic rules, as conditions on the text
C3_RuleMatches(t) ==
    LET low == lower(t)
        n == Len(split(t))
    IN \/ startswith(low, <<"create", SP, "repo">>) /\ n >= 3
       \/ startswith(low, <<"create", SP, "issue">>) /\ n >= 4
       \/ low = <<"help">>
       \/ startswith(low, <<"summarize">>) /\ n >= 2 /\ Contains(split(t)[2], <<"/">>)

\* C3: the intent-extraction LLM call is made only for a text that matches
\* none of the four deterministic rules; a request whose text matches one is
\* handled from start to end without that call.
C3_ExtractionOnlyAfterNoMatch ==
    /\ CallsTo({"LLM intent"}) # {} => ~C3_RuleMatches(text)
    /\ (pc \notin {"sms_webhook", "done"} /\ C3_RuleMatches(text)) => origin = "det"

C3_Witness ==
    /\ pc = "done"
    /\ C3_RuleMatches(text)
    /\ CallsTo(PipelineEntries) # {}
    /\ reply = Str("Could not summarize issue.")

\* The contents that are a JSON object, bare or inside a triple-backtick
\* fence with or without the json tag
C4_IsJsonObject(c) ==
    \/ Len(c) = 1 /\ c[1].t = "object"
    \/ /\ Len(c) = 5
       /\ <<c[1].t, c[2].t, c[3].t, c[4].t, c[5].t>> = <<"fence", "nl", "object", "nl", "fence">>
    \/ /\ Len(c) = 6
       /\ <<c[1].t, c[2].t, c[3].t, c[4].t, c[5].t, c[6].t>>
             = <<"fence", "json", "nl", "object", "nl", "fence">>

C4_ExtractionFailed ==
    /\ raw.kind # ""
    /\ raw.kind \in {"throws", "nochoices"} \/ ~C4_IsJsonObject(raw.content)

\* C4: when the intent-extraction call throws, returns no choices, or returns
\* a content that is not a JSON object, parse_command_naturally returns the
\* unknown intent with every other field null, nothing is raised, no GitHub
\* or summarization call follows, and the reply is the fixed unrecognized
\* message.
C4_FailedExtractionIsUnrecognized ==
    C4_ExtractionFailed =>
        /\ intent = UnknownIntent
        /\ raised = ""
        /\ CallsTo(GitHubCalls \cup PipelineEntries \cup WriteStubs \cup {"LLM summary"}) = {}
        /\ pc \in {"route_natural_command", "done"}
        /\ pc = "done" => reply = UnrecognizedMsg

C4_Witness ==
    /\ pc = "done"
    /\ raw.kind = "content"
    /\ Len(raw.content) = 6
    /\ raw.content[2].t = "tag"
    /\ raw.content[4].t = "object"
    /\ reply = UnrecognizedMsg

C5_HasPrefix(t) == startswith(lower(t), <<"create", SP, "issue">>)
C5_HasSeparator(t) == Contains(t, <<SP, "--", SP>>)

\* C5 as stated: every text with the prefix "create issue" that lacks the
\* separator " -- " or has fewer than 4 tokens is answered with the usage
\* message and is not executed.
C5_UsageForMalformed ==
    (pc = "done" /\ C5_HasPrefix(text)
       /\ (~C5_HasSeparator(text) \/ Len(split(text)) < 4))
    => (reply = UsageMsg /\ CallsTo(WriteStubs) = {})

\* C5 amended: a text with the prefix "create issue", at least 4 tokens and
\* no separator " -- " is answered with the usage message, with no
\* collaborator call at all; a text with the prefix and fewer than 4 tokens
\* matches no deterministic rule and is handed to the intent extractor.
C5_UsageForMissingSeparator ==
    /\ (pc = "done" /\ C5_HasPrefix(text) /\ Len(split(text)) >= 4
          /\ ~C5_HasSeparator(text))
       => (reply = UsageMsg /\ calls = <<>> /\ raised = "")
    /\ (pc # "sms_webhook" /\ C5_HasPrefix(text) /\ Len(split(text)) < 4)
       => /\ origin = "nl"
          /\ pc # "parse_command_naturally" => (calls # <<>> /\ calls[1].fn = "LLM intent")

C5_Witness ==
    /\ pc = "done"
    /\ C5_HasPrefix(text)
    /\ Len(split(text)) = 5
    /\ ~C5_HasSeparator(text)
    /\ reply = UsageMsg

\* The pipeline call the summarize rule is to make for the tokens p
C6_Expected(p) ==
    IF Len(p) >= 4 /\ lower(p[3]) = <<"issue">> /\ isdigit(p[4])
    THEN Call("summarize_specific_issue", p[2], int(p[4]), "called")
    ELSE IF Len(p) >= 3 /\ lower(p[3]) = <<"issue">>
    THEN Call("summarize_latest_issue", p[2], 0, "called")
    ELSE Call("summarize_any_repo", p[2], 0, "called")

\* C6: a text whose first token starts with "summarize" and whose second
\* token contains "/" makes exactly one pipeline call: the specific issue for
\* "issue <digits>", the latest issue for "issue", the repository otherwise.
C6_OnePipelineCall ==
    LET p == split(text)
    IN (pc # "sms_webhook" /\ Len(p) >= 2 /\ startswith(lower(p[1]), <<"summarize">>)
          /\ Contains(p[2], <<"/">>))
       => /\ Cardinality(CallsTo(PipelineEntries)) = 1
          /\ calls[1] = C6_Expected(p)

\* C8: every prompt summarize_any_repo submits to the LLM has at most
\* MAX_TOKENS tokens.
C8_PromptWithinBudget ==
    \A i \in CallsTo({"LLM summary"}) :
        entry.fn = "summarize_any_repo" => calls[i].num <= MAX_TOKENS

C8_Witness ==
    /\ pc = "done"
    /\ entry.fn = "summarize_any_repo"
    /\ prompt.total = MAX_TOKENS
    /\ CallsTo({"LLM summary"}) # {}
    /\ result.src = "llm"

\* C9: when the assembled repository prompt exceeds MAX_TOKENS, the README is
\* truncated, the prompt rebuilt, the LLM called, and the reply is the LLM
\* summary or the LLM-failure string.
C9_OverBudgetIsTrimmed ==
    (pc = "done" /\ entry.fn = "summarize_any_repo" /\ prompt.assembled > MAX_TOKENS)
    => /\ CallsTo({"LLM summary"}) # {}
       /\ result.src = "llm" \/ result = Str("AI summarization failed.")

\* C10: an LLM-extracted intent with one of the five executable actions and
\* its required fields populated is executed by exactly one collaborator
\* call, the one that matches its action, and is not answered as
\* unrecognized; help and unknown make no such call.
C10_Required(i) ==
    CASE i.action \in {"summarize_repo", "summarize_latest_issue", "create_issue"} ->
            Truthy(i.repo)
      [] i.action = "summarize_issue" -> Truthy(i.repo) /\ i.issue_number # None
      [] i.action = "create_repo" -> Truthy(i.repo_name)
      [] OTHER -> FALSE

C10_Callee(a) ==
    CASE a = "summarize_repo" -> "summarize_any_repo"
      [] a = "summarize_latest_issue" -> "summarize_latest_issue"
      [] a = "summarize_issue" -> "summarize_specific_issue"
      [] OTHER -> a

C10_ExecuteCallsOnce ==
    (pc = "done" /\ origin = "nl")
    => /\ C10_Required(intent)
          => /\ Cardinality(CallsTo(PipelineEntries \cup WriteStubs)) = 1
             /\ CallsTo({C10_Callee(intent.action)}) # {}
             /\ reply # UnrecognizedMsg
       /\ intent.action \in {"help", "unknown"}
          => CallsTo(PipelineEntries \cup WriteStubs) = {}

\* A strong match: the name equals q, or the full name contains q
C7_Strong(c, q) ==
    lower(c.name) = lower(q) \/ Contains(lower(c.full_name), lower(q))

\* A soft match: the description or the name contains q
C7_Soft(c, q) ==
    \/ c.description # None /\ Contains(lower(c.description), lower(q))
    \/ Contains(lower(c.name), lower(q))

\* C7: for a successful search, github_search_repo returns the full name of
\* the first strong match if the list holds one, else of the first soft
\* match, else of the first candidate, else None.
C7_TieredMatch ==
    (pc = "route_natural_command" /\ items.status = "ok")
    => LET L == items.list
           q == text
           first(P(_)) == CHOOSE i \in 1..Len(L) :
                              P(L[i]) /\ \A j \in 1..(i - 1) : ~P(L[j])
           S(c) == C7_Strong(c, q)
           W(c) == C7_Soft(c, q)
       IN IF \E i \in 1..Len(L) : S(L[i]) THEN guess = L[first(S)].full_name
          ELSE IF \E i \in 1..Len(L) : W(L[i]) THEN guess = L[first(W)].full_name
          ELSE IF Len(L) > 0 THEN guess = L[1].full_name
          ELSE guess = None

\* A list whose first candidate is only a soft match and whose second is a
\* strong one: the second is returned
C7_Witness ==
    /\ pc = "route_natural_command"
    /\ items.status = "ok"
    /\ Len(items.list) = 2
    /\ ~C7_Strong(items.list[1], text)
    /\ C7_Soft(items.list[1], text)
    /\ C7_Strong(items.list[2], text)
    /\ guess = items.list[2].full_name
    /\ intent.repo = guess

\* The intent names an action whose required field is null or empty
C11_LacksRequired(i) ==
    \/ i.action \in {"summarize_repo", "summarize_latest_issue", "create_issue"}
          /\ ~Truthy(i.repo)
    \/ i.action = "create_repo" /\ ~Truthy(i.repo_name)

\* C11: an LLM-extracted intent that, after the repository resolution, lacks
\* the field its action requires is answered as an unknown one: no pipeline
\* entry and no write stub is called, and the reply is the fixed
\* unrecognized-command message.
C11_MissingFieldIsUnrecognized ==
    (pc = "done" /\ origin = "nl" /\ C11_LacksRequired(intent))
    => /\ CallsTo(PipelineEntries \cup WriteStubs \cup {"LLM summary"}) = {}
       /\ reply = UnrecognizedMsg
       /\ raised = ""

\* A summarize_repo intent without repo, for which the search found nothing
C11_Witness ==
    /\ pc = "done"
    /\ origin = "nl"
    /\ intent.action = "summarize_repo"
    /\ intent.repo = None
    /\ CallsTo({"GET search"}) # {}
    /\ guess = None
    /\ reply = UnrecognizedMsg

\* The fetches of the pipeline entries, and those an entry cannot do without
C12_Fetches == {"GET repo", "GET readme", "GET issues", "GET issue", "GET comments"}
C12_Required == {"GET repo", "GET issues", "GET issue", "GET comments"}

\* A fetch of F came back with a non-success status or with an empty list
C12_Failed(F) == \E i \in CallsTo(F) : calls[i].out \in {"status", "empty"}

\* The fetch of F raised
C12_Raised(F) == \E i \in CallsTo(F) : calls[i].out = "throws"

\* The summarization LLM call comes after every GitHub call of the request,
\* all of which returned, the required ones with success
C12_LLMAfterFetches ==
    \A i \in CallsTo({"LLM summary"}) :
        /\ CallsTo(C12_Fetches) # {}
        /\ \A j \in CallsTo(GitHubCalls) : j < i
        /\ \A j \in CallsTo(C12_Fetches) : calls[j].out # "throws"
        /\ \A j \in CallsTo(C12_Required) : calls[j].out = "ok"

\* C12 as stated: the LLM call comes after the fetches; a failed required
\* fetch means no LLM call, and "Could not find repo." for the repository
\* metadata, "No issues found." for the latest-issue list, no text for the
\* issue thread.
C12_FailedFetchResult ==
    /\ C12_LLMAfterFetches
    /\ C12_Failed(C12_Required) => CallsTo({"LLM summary"}) = {}
    /\ pc = "done"
       => /\ C12_Failed({"GET repo"}) => result = Str("Could not find repo.")
          /\ C12_Failed({"GET issues"}) => result = Str("No issues found.")
          /\ C12_Failed({"GET issue", "GET comments"}) => ~IsString(result)

\* C12, amended: as stated, except that a non-success repository-metadata
\* fetch yields "Could not find repo." only when the README fetch returned;
\* when the README fetch raised, the result is "Something went wrong.".
C12_NoLLMAfterFailedFetch ==
    /\ C12_LLMAfterFetches
    /\ C12_Failed(C12_Required) => CallsTo({"LLM summary"}) = {}
    /\ pc = "done"
       => /\ C12_Failed({"GET repo"})
             => result = IF C12_Raised({"GET readme"})
                         THEN Str("Something went wrong.")
                         ELSE Str("Could not find repo.")
          /\ C12_Failed({"GET issues"}) => result = Str("No issues found.")
          /\ C12_Failed({"GET issue", "GET comments"}) => ~IsString(result)

\* A repository that does not exist: both fetches return a non-success
\* status, and the request ends without an LLM call
C12_Witness ==
    /\ pc = "done"
    /\ entry.fn = "summarize_any_repo"
    /\ C12_Failed({"GET repo"})
    /\ C12_Failed({"GET readme"})
    /\ CallsTo({"LLM summary"}) = {}
    /\ result = Str("Could not find repo.")

\* The search ended without a candidate: it raised, returned a non-success
\* status, a body without usable items, or an empty list
C13_NoCandidate ==
    \/ items.status \in {"throws", "status", "malformed"}
    \/ items.status = "ok" /\ items.list = <<>>

\* The JSON object of the LLM's answer
C13_ParsedIntent ==
    LET c == raw.content
        k == CHOOSE k \in 1..Len(c) : c[k].t = "object"
    IN c[k].v

\* C13: a search that raises, returns a non-success status, a body without
\* usable items or an empty list makes github_search_repo return None
\* without an exception, and parse_command_naturally goes on and returns
\* the parsed intent with its repo still null.
C13_SearchFailureIsNoMatch ==
    (CallsTo({"GET search"}) # {} /\ C13_NoCandidate)
    => /\ guess = None
       /\ raised = ""
       /\ pc \in {"route_natural_command", "done"}
       /\ intent = C13_ParsedIntent
       /\ ~Truthy(intent.repo)

\* The search raised, and the create_issue intent went on to the dispatcher
\* without a repo
C13_Witness ==
    /\ pc = "done"
    /\ items.status = "throws"
    /\ CallsTo({"GET search"}) # {}
    /\ intent.action = "create_issue"
    /\ intent.repo = None
    /\ raised = ""

\* parse_command_naturally has returned, and json.loads gave an object
C14_ParseReturned ==
    /\ origin = "nl"
    /\ pc \notin {"parse_command_naturally", "github_search_repo"}
    /\ raw.kind = "content"
    /\ C4_IsJsonObject(raw.content)

\* The parsed action needs a repository and the parsed repo is null or empty
C14_RepoWanted(p) ==
    /\ p.action \in {"summarize_repo", "summarize_latest_issue", "create_issue"}
    /\ p.repo = None \/ p.repo = <<>>

\* C14: after a successful parse the repository search is called, once and
\* with the user's text, exactly when the parsed action is summarize_repo,
\* summarize_latest_issue or create_issue and the parsed repo is null or
\* empty; the returned intent is the parsed one, with repo replaced by the
\* full name the search returned if it returned one, and otherwise as parsed.
C14_SearchOnlyWhenRepoMissing ==
    C14_ParseReturned
    => LET p == C13_ParsedIntent
           S == CallsTo({"GET search"})
       IN /\ Cardinality(S) = IF C14_RepoWanted(p) THEN 1 ELSE 0
          /\ \A i \in S : calls[i].repo = text /\ calls[i - 1].fn = "LLM intent"
          /\ intent = IF C14_RepoWanted(p) /\ guess # None
                      THEN [p EXCEPT !.repo = guess]
                      ELSE p
          /\ (C14_RepoWanted(p) /\ guess # None)
             => \E k \in 1..Len(items.list) : guess = items.list[k].full_name

\* The LLM gave summarize_latest_issue without a repo, the search found one,
\* and the pipeline entry was called with it
C14_Witness ==
    /\ C14_ParseReturned
    /\ C13_ParsedIntent.action = "summarize_latest_issue"
    /\ C13_ParsedIntent.repo = None
    /\ guess = Slash1
    /\ intent = [C13_ParsedIntent EXCEPT !.repo = Slash1]
    /\ \E i \in CallsTo({"summarize_latest_issue"}) : calls[i].repo = Slash1

\* The number of "/" in a repository identifier
C15_Slashes(repo) == Cardinality({k \in 1..Len(repo) : repo[k] = "/"})

\* C15: every repository identifier handed to a pipeline entry or to
\* create_issue, and every one that reaches a GitHub call, contains exactly
\* one "/".
C15_RepoHasOneSlash ==
    \A i \in CallsTo(PipelineEntries \cup {"create_issue"}
                       \cup (GitHubCalls \ {"GET search"})) :
        C15_Slashes(calls[i].repo) = 1

====
